---- MODULE Spec2Model ----
(***************************************************************************)
(* too-many-enemies (src/src/main.rs): the per-frame systems of the Bevy   *)
(* app.  One frame is                                                      *)
(*   First       the clock advances by the frame delta, event buffers swap *)
(*   Update      the systems of main() run once each, in any order; their  *)
(*               Commands are deferred                                     *)
(*   ApplyDeferred  the queued Commands are applied to the world           *)
(*   PostUpdate  the physics plugin steps and reports contacts             *)
(* Time is counted in whole time units (Timer 3.0 -> 3, 5.0 -> 5).         *)
(* Vectors are integer triples.  Entities are their allocation indices.    *)
(***************************************************************************)
EXTENDS Integers, Sequences, FiniteSets, TLC

VARIABLES
    pc,            \* position in the frame: "first", "update", "post"
    ran,           \* Update systems that already ran in this frame
    now,           \* Time::elapsed
    delta,         \* Time::delta of the current frame
    alive,         \* entities of the World
    player,        \* Transform of the Player ship: translation, forward()
    bullets,       \* DelayedDespawn of the live Bullet entities
    nextEntity,    \* next index the entity allocator hands out
    despawned,     \* per entity: successful World::despawn calls
    cmds,          \* per system: its deferred Commands queue
    shootA, shootB,   \* Events<ShootBulletEvent>: events_a, events_b
    shootCount,    \* Events<ShootBulletEvent>: event_count
    spawnReader,   \* spawn_bullet's EventReader: events of a, b it has read
    collA, collB,  \* Events<CollisionEvent>: events_a, events_b
    collReader,    \* bullet_collision's EventReader: events of a, b it has read
    autoTimer,     \* autoshoot's Local<Option<Timer>>: <<>> or <<timer>>
    failed,        \* systems whose Err reached error_handler in this frame
    panicked,      \* a system panicked: the process is gone
    \* ---- camera_controller ----
    camPc,         \* "input" or "update"
    window,        \* Window.cursor: visible, grab_mode
    active,        \* CameraControllerState.active
    mouse,         \* Input<MouseButton> of the designated button
    motion,        \* MouseMotion events of the current frame
    camDelta,      \* Time::delta seen by camera_controller
    rotation_y,    \* ActiveCamera.rotation_y, in tenths of a unit
    rotation_x     \* ActiveCamera.rotation_x, in tenths of a unit

gameVars == <<pc, ran, now, delta, alive, player, bullets, nextEntity,
              despawned, cmds, shootA, shootB, shootCount, spawnReader,
              collA, collB, collReader, autoTimer, failed, panicked>>
camVars == <<camPc, window, active, mouse, motion, camDelta, rotation_y,
             rotation_x>>
vars == <<gameVars, camVars>>

(***************************************************************************)
(* Bounds of the model                                                     *)
(***************************************************************************)
MaxTime == 8          \* frames stop once Time::elapsed would exceed this
MaxAngle == 3         \* mouse motion stops once an angle is this far out

Deltas == {2, 3, 7}          \* frame deltas the clock may report
ContactCounts == {0, 1, 2}   \* notifications one physics step may report

(***************************************************************************)
(* Program constants                                                       *)
(***************************************************************************)
AutoshootPeriod == 3
BulletLifetime == 5
BulletSpeed == 100
BulletSpawnDistance == 2

CameraEntity == 0
PlayerEntity == 1
PlayerScene == 2
EnemyEntity == 3
EnemyScene == 4
FirstBullet == 5

MaxEntity == FirstBullet + (MaxTime \div AutoshootPeriod)
EntityIds == 0..MaxEntity
BulletIds == FirstBullet..MaxEntity

\* Entities carrying the Ship component (and a Collider)
Ships == {PlayerEntity, EnemyEntity}
\* Entities carrying the ActiveCamera / Player marker
ActiveCameras == alive \cap {CameraEntity}
Players == alive \cap {PlayerEntity}

\* Children component: the scene instantiated under each SceneBundle
Children(e) ==
    IF e = PlayerEntity THEN {PlayerScene}
    ELSE IF e = EnemyEntity THEN {EnemyScene}
    ELSE {}

Systems == {"player_rotation_controller", "spawn_bullet", "autoshoot",
            "delayed_despawn", "bullet_collision"}

Dirs == {<<0, 0, -1>>, <<1, 0, 0>>}
Positions == {<<0, 0, 0>>, <<3, 0, -4>>}

VAdd(a, b) == <<a[1] + b[1], a[2] + b[2], a[3] + b[3]>>
VScale(v, k) == <<v[1] * k, v[2] * k, v[3] * k>>

(***************************************************************************)
(* bevy Timer                                                              *)
(***************************************************************************)
TimerFromSeconds(duration, repeating) ==
    [duration |-> duration, repeating |-> repeating, elapsed |-> 0,
     finished |-> FALSE, times_finished_this_tick |-> 0]

TimerTick(t, d) ==
    IF ~t.repeating /\ t.finished
    THEN [t EXCEPT !.times_finished_this_tick = 0]
    ELSE LET e == t.elapsed + d IN
         IF e >= t.duration
         THEN IF t.repeating
              THEN [t EXCEPT !.finished = TRUE,
                             !.times_finished_this_tick = e \div t.duration,
                             !.elapsed = e % t.duration]
              ELSE [t EXCEPT !.finished = TRUE,
                             !.times_finished_this_tick = 1,
                             !.elapsed = t.duration]
         ELSE [t EXCEPT !.finished = FALSE,
                        !.times_finished_this_tick = 0,
                        !.elapsed = e]

JustFinished(t) == t.times_finished_this_tick > 0

DelayedDespawnNew(duration) == TimerFromSeconds(duration, FALSE)

BulletBundleNew(direction, translation) ==
    [transform |-> translation,
     velocity |-> VScale(direction, BulletSpeed),
     delayed_despawn |-> DelayedDespawnNew(BulletLifetime)]

(***************************************************************************)
(* bevy Events<T>: send, update, EventReader::read                         *)
(* A reader's cursor (last_event_count) is kept relative to the oldest      *)
(* buffered event: the number of buffered events it has read.              *)
(***************************************************************************)
\* Mutant: the reader looks at the newest buffer only
UnreadNewestOnly(a, b, read) ==
    SubSeq(b, (IF read > Len(a) THEN read - Len(a) ELSE 0) + 1, Len(b))

\* The events a reader has not seen yet, oldest first
Unread(a, b, read) == SubSeq(a \o b, read + 1, Len(a) + Len(b))

\* Events::update drops events_a: the cursor moves with the buffer
CursorAfterUpdate(a, read) == IF read > Len(a) THEN read - Len(a) ELSE 0

UnreadShoot == Unread(shootA, shootB, spawnReader)
UnreadCollisions == Unread(collA, collB, collReader)

(***************************************************************************)
(* Commands                                                                *)
(***************************************************************************)
SpawnCmd(e, bundle) == [op |-> "spawn", entity |-> e, bundle |-> <<bundle>>]
DespawnCmd(e) == [op |-> "despawn", entity |-> e, bundle |-> <<>>]
DespawnRecursiveCmd(e) ==
    [op |-> "despawn_recursive", entity |-> e, bundle |-> <<>>]

NoCmds == [s \in {"spawn_bullet", "delayed_despawn", "bullet_collision"}
             |-> <<>>]

\* Mutant: despawn does not look whether the entity is still there
WorldDespawnUnchecked(w, e) ==
    [alive |-> w.alive \ {e},
     bullets |-> [b \in (DOMAIN w.bullets) \ {e} |-> w.bullets[b]],
     despawned |-> [w.despawned EXCEPT ![e] = @ + 1]]

\* World::despawn: removes a live entity; a missing one is a logged no-op
WorldDespawn(w, e) ==
    IF e \in w.alive
    THEN [alive |-> w.alive \ {e},
          bullets |-> [b \in (DOMAIN w.bullets) \ {e} |-> w.bullets[b]],
          despawned |-> [w.despawned EXCEPT ![e] = @ + 1]]
    ELSE w

RECURSIVE DespawnAll(_, _)
DespawnAll(w, S) ==
    IF S = {} THEN w
    ELSE LET e == CHOOSE x \in S : TRUE
         IN DespawnAll(WorldDespawn(w, e), S \ {e})

\* despawn_with_children_recursive: the children first, then the entity
WorldDespawnRecursive(w, e) ==
    WorldDespawn(DespawnAll(w, IF e \in w.alive THEN Children(e) ELSE {}), e)

\* Of a spawned bundle the world keeps the countdown; the Transform and the
\* Velocity pass to the physics plugin, which moves the body from then on.
ApplyCommand(w, c) ==
    IF c.op = "spawn"
    THEN [w EXCEPT !.alive = @ \cup {c.entity},
                   !.bullets = [b \in (DOMAIN @) \cup {c.entity} |->
                                  IF b = c.entity
                                  THEN [delayed_despawn |->
                                          c.bundle[1].delayed_despawn]
                                  ELSE @[b]]]
    ELSE IF c.op = "despawn" THEN WorldDespawn(w, c.entity)
    ELSE WorldDespawnRecursive(w, c.entity)

RECURSIVE ApplyQueue(_, _)
ApplyQueue(w, q) ==
    IF q = <<>> THEN w ELSE ApplyQueue(ApplyCommand(w, Head(q)), Tail(q))

\* apply_deferred at the end of Update: the queues in system order
ApplyAll(w, c) ==
    ApplyQueue(ApplyQueue(ApplyQueue(w, c["spawn_bullet"]),
                          c["delayed_despawn"]),
               c["bullet_collision"])

(***************************************************************************)
(* Init: the world after the Startup schedule (setup)                      *)
(***************************************************************************)
GameInit ==
    /\ pc = "first"
    /\ ran = {}
    /\ now = 0
    /\ delta = 0
    /\ alive = {CameraEntity, PlayerEntity, PlayerScene, EnemyEntity,
                EnemyScene}
    /\ player = [translation |-> <<0, 0, 0>>, forward |-> <<0, 0, -1>>]
    /\ bullets = <<>>
    /\ nextEntity = FirstBullet
    /\ despawned = [e \in EntityIds |-> 0]
    /\ cmds = NoCmds
    /\ shootA = <<>> /\ shootB = <<>> /\ shootCount = 0
    /\ spawnReader = 0
    /\ collA = <<>> /\ collB = <<>>
    /\ collReader = 0
    /\ autoTimer = <<>>
    /\ failed = {}
    /\ panicked = FALSE

(***************************************************************************)
(* First schedule: the clock advances, every Events<T> swaps its buffers   *)
(***************************************************************************)
First ==
    /\ pc = "first" /\ ~panicked
    /\ \E d \in Deltas :
         /\ now + d <= MaxTime
         /\ delta' = d
         /\ now' = now + d
    /\ shootA' = shootB /\ shootB' = <<>>
    /\ collA' = collB /\ collB' = <<>>
    /\ spawnReader' = CursorAfterUpdate(shootA, spawnReader)
    /\ collReader' = CursorAfterUpdate(collA, collReader)
    /\ ran' = {} /\ failed' = {}
    /\ pc' = "update"
    /\ UNCHANGED <<alive, player, bullets, nextEntity, despawned, cmds,
                   shootCount, autoTimer, panicked>>
    /\ UNCHANGED camVars

CanRun(system) == pc = "update" /\ ~panicked /\ system \notin ran

(***************************************************************************)
(* player_rotation_controller: the player's rotation is blended towards    *)
(* the camera's.  The camera's orientation follows the user's mouse, so    *)
(* the resulting facing is any of Dirs.                                    *)
(***************************************************************************)
player_rotation_controller ==
    /\ CanRun("player_rotation_controller")
    /\ ran' = ran \cup {"player_rotation_controller"}
    /\ IF Cardinality(Players) # 1 \/ Cardinality(ActiveCameras) # 1
       THEN /\ failed' = failed \cup {"player_rotation_controller"}
            /\ player' = player
       ELSE /\ failed' = failed
            /\ \E f \in Dirs : player' = [player EXCEPT !.forward = f]
    /\ UNCHANGED <<pc, now, delta, alive, bullets, nextEntity, despawned,
                   cmds, shootA, shootB, shootCount, spawnReader, collA,
                   collB, collReader, autoTimer, panicked>>
    /\ UNCHANGED camVars

(***************************************************************************)
(* spawn_bullet                                                            *)
(***************************************************************************)
\* ship_query.get(e): the Transform and Ship of a live ship
IsShip(e) == e \in alive \cap Ships

ShipTransform(e) ==
    IF e = PlayerEntity THEN player
    ELSE [translation |-> <<0, 0, -50>>, forward |-> <<0, 0, -1>>]

\* Mutant: the bullet is placed at the spawn offset, not relative to the ship
BulletForOffsetOnly(shooter) ==
    LET forward_vector == ShipTransform(shooter).forward
    IN BulletBundleNew(forward_vector,
                       VScale(forward_vector, BulletSpawnDistance))

BulletFor(shooter) ==
    LET transform == ShipTransform(shooter)
        forward_vector == transform.forward
        bullet_spawn_offset == VScale(forward_vector, BulletSpawnDistance)
    IN BulletBundleNew(forward_vector,
                       VAdd(transform.translation, bullet_spawn_offset))

RECURSIVE SpawnBulletCmds(_, _)
SpawnBulletCmds(events, next) ==
    IF events = <<>> THEN <<>>
    ELSE IF IsShip(Head(events).shooter)
         THEN <<SpawnCmd(next, BulletFor(Head(events).shooter))>>
              \o SpawnBulletCmds(Tail(events), next + 1)
         ELSE SpawnBulletCmds(Tail(events), next)

spawn_bullet ==
    /\ CanRun("spawn_bullet")
    /\ ran' = ran \cup {"spawn_bullet"}
    /\ LET spawned == SpawnBulletCmds(UnreadShoot, nextEntity)
       IN /\ cmds' = [cmds EXCEPT !["spawn_bullet"] = @ \o spawned]
          /\ nextEntity' = nextEntity + Len(spawned)
    /\ spawnReader' = spawnReader + Len(UnreadShoot)
    /\ UNCHANGED <<pc, now, delta, alive, player, bullets, despawned, shootA,
                   shootB, shootCount, collA, collB, collReader,
                   autoTimer, failed, panicked>>
    /\ UNCHANGED camVars

(***************************************************************************)
(* autoshoot                                                               *)
(***************************************************************************)
AutoshootTimer ==
    IF autoTimer = <<>> THEN TimerFromSeconds(AutoshootPeriod, TRUE)
    ELSE autoTimer[1]

autoshoot ==
    /\ CanRun("autoshoot")
    /\ ran' = ran \cup {"autoshoot"}
    /\ LET timer == TimerTick(AutoshootTimer, delta)
       IN /\ autoTimer' = <<timer>>
          /\ IF JustFinished(timer)
             THEN IF Cardinality(Players) # 1
                  THEN /\ failed' = failed \cup {"autoshoot"}
                       /\ UNCHANGED <<shootB, shootCount>>
                  ELSE /\ shootB' = Append(shootB, [shooter |-> PlayerEntity])
                       /\ shootCount' = shootCount + 1
                       /\ failed' = failed
             ELSE UNCHANGED <<shootB, shootCount, failed>>
    /\ UNCHANGED <<pc, now, delta, alive, player, bullets, nextEntity,
                   despawned, cmds, shootA, spawnReader, collA, collB,
                   collReader, panicked>>
    /\ UNCHANGED camVars

(***************************************************************************)
(* delayed_despawn                                                         *)
(***************************************************************************)
\* Mutant: the countdown advances by one per frame, not by the frame's delta
TickedBulletPerFrame(b, d) ==
    [b EXCEPT !.delayed_despawn = TimerTick(b.delayed_despawn, 1)]

TickedBullet(b, d) ==
    [b EXCEPT !.delayed_despawn = TimerTick(b.delayed_despawn, d)]

\* The query's entities in table order
RECURSIVE ExpiredCmds(_, _)
ExpiredCmds(ticked, from) ==
    IF from > MaxEntity THEN <<>>
    ELSE (IF from \in DOMAIN ticked
             /\ JustFinished(ticked[from].delayed_despawn)
          THEN <<DespawnCmd(from)>> ELSE <<>>)
         \o ExpiredCmds(ticked, from + 1)

delayed_despawn ==
    /\ CanRun("delayed_despawn")
    /\ ran' = ran \cup {"delayed_despawn"}
    /\ LET ticked == [b \in DOMAIN bullets |-> TickedBullet(bullets[b], delta)]
       IN /\ bullets' = ticked
          /\ cmds' = [cmds EXCEPT !["delayed_despawn"] =
                                     @ \o ExpiredCmds(ticked, FirstBullet)]
    /\ UNCHANGED <<pc, now, delta, alive, player, nextEntity, despawned,
                   shootA, shootB, shootCount, spawnReader, collA, collB,
                   collReader, autoTimer, failed, panicked>>
    /\ UNCHANGED camVars

(***************************************************************************)
(* bullet_collision                                                        *)
(***************************************************************************)
\* Mutant: a bullet whose countdown has expired no longer counts as one
IsBulletNotExpired(e) ==
    e \in DOMAIN bullets /\ ~bullets[e].delayed_despawn.finished

\* bullet_query.contains(e): a live entity with the Bullet component
IsBullet(e) == e \in DOMAIN bullets

\* Mutant: only the first participant is looked up in bullet_query
RECURSIVE BulletCollisionsFirstOnly(_)
BulletCollisionsFirstOnly(events) ==
    IF events = <<>> THEN <<>>
    ELSE LET ev == Head(events)
             rest == BulletCollisionsFirstOnly(Tail(events))
         IN IF ev.type = "Started" /\ ev.entity1 \in DOMAIN bullets
            THEN <<<<ev.entity1, ev.entity2>>>> \o rest
            ELSE rest

\* The two filter_map stages: <<bullet, other_entity>> per kept event
RECURSIVE BulletCollisions(_)
BulletCollisions(events) ==
    IF events = <<>> THEN <<>>
    ELSE LET ev == Head(events)
             rest == BulletCollisions(Tail(events))
         IN IF ev.type # "Started" THEN rest
            ELSE IF IsBullet(ev.entity1) THEN <<<<ev.entity1, ev.entity2>>>> \o rest
            ELSE IF IsBullet(ev.entity2) THEN <<<<ev.entity2, ev.entity1>>>> \o rest
            ELSE rest

RECURSIVE CollisionCmds(_)
CollisionCmds(pairs) ==
    IF pairs = <<>> THEN <<>>
    ELSE <<DespawnCmd(Head(pairs)[1]), DespawnRecursiveCmd(Head(pairs)[2])>>
         \o CollisionCmds(Tail(pairs))

\* Commands::entity panics for an entity that is not in the world
EntityCommandsPanic(pairs) ==
    \E i \in 1..Len(pairs) :
        pairs[i][1] \notin alive \/ pairs[i][2] \notin alive

bullet_collision ==
    /\ CanRun("bullet_collision")
    /\ ran' = ran \cup {"bullet_collision"}
    /\ LET bullet_collusions == BulletCollisions(UnreadCollisions)
       IN IF EntityCommandsPanic(bullet_collusions)
          THEN panicked' = TRUE /\ cmds' = cmds
          ELSE /\ panicked' = panicked
               /\ cmds' = [cmds EXCEPT !["bullet_collision"] =
                             @ \o CollisionCmds(bullet_collusions)]
    /\ collReader' = collReader + Len(UnreadCollisions)
    /\ UNCHANGED <<pc, now, delta, alive, player, bullets, nextEntity,
                   despawned, shootA, shootB, shootCount, spawnReader, collA,
                   collB, autoTimer, failed>>
    /\ UNCHANGED camVars

(***************************************************************************)
(* apply_deferred at the end of the Update schedule                        *)
(***************************************************************************)
ApplyDeferred ==
    /\ pc = "update" /\ ~panicked /\ ran = Systems
    /\ LET w == ApplyAll([alive |-> alive, bullets |-> bullets,
                          despawned |-> despawned], cmds)
       IN /\ alive' = w.alive
          /\ bullets' = w.bullets
          /\ despawned' = w.despawned
    /\ cmds' = NoCmds
    /\ pc' = "post"
    /\ UNCHANGED <<ran, now, delta, player, nextEntity, shootA, shootB,
                   shootCount, spawnReader, collA, collB,
                   collReader, autoTimer, failed, panicked>>
    /\ UNCHANGED camVars

(***************************************************************************)
(* PostUpdate: the physics plugin moves the bodies and reports contacts.   *)
(* A contact names two bodies of the simulation; a notification repeated   *)
(* from an earlier step may name two bodies that are gone by now.          *)
(***************************************************************************)
Colliders == Ships \cup BulletIds
LiveColliders == alive \cap Colliders
GoneColliders == {e \in Colliders : despawned[e] > 0}

ContactPairs ==
    {p \in (LiveColliders \X LiveColliders) \cup (GoneColliders \X GoneColliders) :
        p[1] # p[2]}

Contacts ==
    {[type |-> t, entity1 |-> p[1], entity2 |-> p[2]] :
        t \in {"Started", "Stopped"}, p \in ContactPairs}

PostUpdate ==
    /\ pc = "post" /\ ~panicked
    /\ \E d \in Deltas : now + d <= MaxTime
    /\ \E n \in ContactCounts : \E reported \in [1..n -> Contacts] :
         collB' = collB \o reported
    /\ IF PlayerEntity \in alive
       THEN \E t \in Positions : player' = [player EXCEPT !.translation = t]
       ELSE player' = player
    /\ pc' = "first"
    /\ UNCHANGED <<ran, now, delta, alive, bullets, nextEntity, despawned,
                   cmds, shootA, shootB, shootCount, spawnReader, collA,
                   collReader, autoTimer, failed, panicked>>
    /\ UNCHANGED camVars

GameNext ==
    \/ First
    \/ player_rotation_controller
    \/ spawn_bullet
    \/ autoshoot
    \/ delayed_despawn
    \/ bullet_collision
    \/ ApplyDeferred
    \/ PostUpdate

(***************************************************************************)
(* camera_controller and the input it reads.  Angles are kept in tenths:   *)
(* mouse_speed 0.1 is one tenth per unit of time and of motion.            *)
(***************************************************************************)
MouseSpeedTenths == 1
MaxMotion == 2        \* MouseMotion events per frame
MaxButtonEvents == 2  \* press/release events of the button per frame

CamDeltas == {1, 2}
MotionDeltas == {<<1, 0>>, <<0, -1>>, <<-2, 1>>}

CamInit ==
    /\ camPc = "input"
    /\ window = <<[visible |-> TRUE, grab_mode |-> "None"]>>
    /\ active = FALSE
    /\ mouse = [pressed |-> FALSE, just_pressed |-> FALSE,
                just_released |-> FALSE]
    /\ motion = <<>>
    /\ camDelta = 0
    /\ rotation_y = 0
    /\ rotation_x = 0

\* Input::press / Input::release for the events of one frame, in order
RECURSIVE ButtonInput(_, _)
ButtonInput(m, events) ==
    IF events = <<>> THEN m
    ELSE LET next ==
               IF Head(events) = "press"
               THEN IF ~m.pressed
                    THEN [m EXCEPT !.pressed = TRUE, !.just_pressed = TRUE]
                    ELSE m
               ELSE IF m.pressed
                    THEN [m EXCEPT !.pressed = FALSE, !.just_released = TRUE]
                    ELSE m
         IN ButtonInput(next, Tail(events))

Abs(x) == IF x < 0 THEN -x ELSE x

\* PreUpdate: Input::clear, then the frame's button and motion events
CamInput ==
    /\ camPc = "input"
    /\ \E d \in CamDeltas : camDelta' = d
    /\ \E n \in 0..MaxButtonEvents : \E ev \in [1..n -> {"press", "release"}] :
         mouse' = ButtonInput([mouse EXCEPT !.just_pressed = FALSE,
                                            !.just_released = FALSE], ev)
    /\ \E n \in 0..MaxMotion : \E mv \in [1..n -> MotionDeltas] :
         /\ (Abs(rotation_y) >= MaxAngle \/ Abs(rotation_x) >= MaxAngle)
               => n = 0
         /\ motion' = mv
    /\ camPc' = "update"
    /\ UNCHANGED <<window, active, rotation_y, rotation_x>>
    /\ UNCHANGED gameVars

\* if mouse.just_pressed(mouse_button) { ... }
OnPress(s, m) ==
    IF m.just_pressed
    THEN [s EXCEPT !.visible = FALSE, !.grab_mode = "Locked", !.active = TRUE]
    ELSE s

\* if mouse.just_released(mouse_button) { ... }
OnRelease(s, m) ==
    IF m.just_released
    THEN [s EXCEPT !.visible = TRUE, !.grab_mode = "None", !.active = FALSE]
    ELSE s

\* Mutant: motion turns the camera whether or not the flag is set
RECURSIVE OnMotionAlways(_, _, _)
OnMotionAlways(s, events, dt) ==
    IF events = <<>> THEN s
    ELSE OnMotionAlways(
           [s EXCEPT !.rotation_y = @ - dt * Head(events)[1] * MouseSpeedTenths,
                     !.rotation_x = @ + dt * Head(events)[2] * MouseSpeedTenths],
           Tail(events), dt)

\* for event in mouse_motion_events.read() { if active { ... } }
RECURSIVE OnMotion(_, _, _)
OnMotion(s, events, dt) ==
    IF events = <<>> THEN s
    ELSE LET ev == Head(events)
             next ==
               IF s.active /\ Cardinality(ActiveCameras) = 1
               THEN [s EXCEPT
                       !.rotation_y = @ - dt * ev[1] * MouseSpeedTenths,
                       !.rotation_x = @ + dt * ev[2] * MouseSpeedTenths]
               ELSE s
         IN OnMotion(next, Tail(events), dt)

CameraControllerResult(s, m, events, dt) ==
    OnMotion(OnRelease(OnPress(s, m), m), events, dt)

camera_controller ==
    /\ camPc = "update"
    /\ camPc' = "input"
    /\ IF Len(window) # 1
       THEN UNCHANGED <<window, active, rotation_y, rotation_x>>
       ELSE LET s == CameraControllerResult(
                        [visible |-> window[1].visible,
                         grab_mode |-> window[1].grab_mode,
                         active |-> active,
                         rotation_y |-> rotation_y,
                         rotation_x |-> rotation_x],
                        mouse, motion, camDelta)
            IN /\ window' = <<[visible |-> s.visible,
                               grab_mode |-> s.grab_mode]>>
               /\ active' = s.active
               /\ rotation_y' = s.rotation_y
               /\ rotation_x' = s.rotation_x
    /\ UNCHANGED <<mouse, motion, camDelta>>
    /\ UNCHANGED gameVars

CamNext ==
    \/ CamInput
    \/ camera_controller

Init == GameInit /\ CamInit

\* The frame loop of the game systems
Spec == Init /\ [][GameNext]_vars

\* The frame loop of the pointer-drag input mapper
SpecCamera == Init /\ [][CamNext]_vars

(***************************************************************************)
(* The claims                                                              *)
(***************************************************************************)
Targets(q) == {q[i].entity : i \in DOMAIN q}
Min(a, b) == IF a < b THEN a ELSE b

\* The step in which `system` runs
Step(system) == system \notin ran /\ system \in ran'
\* The step in which the deferred Commands are applied
Applied == pc = "update" /\ pc' = "post"
\* During Update and until the next First: the contacts read in this frame
FrameContacts == collA \o collB
\* Projectiles delayed_despawn has queued for destruction in this frame
Expired == Targets(cmds["delayed_despawn"])
\* A contact-start with a participant that carries the Bullet tag
BulletContact(ev) ==
    /\ ev.type = "Started"
    /\ (ev.entity1 \in DOMAIN bullets \/ ev.entity2 \in DOMAIN bullets)
Projectile(ev) ==
    IF ev.entity1 \in DOMAIN bullets THEN ev.entity1 ELSE ev.entity2
Other(ev) ==
    IF ev.entity1 \in DOMAIN bullets THEN ev.entity2 ELSE ev.entity1

\* C1: while the player exists, once autoshoot has run in a frame the fire
\* notifications emitted so far number floor(elapsed time / 3.0), whatever
\* the frames' deltas were.
C1_OneFirePerPeriod ==
    (PlayerEntity \in alive /\ (pc # "update" \/ "autoshoot" \in ran))
        => shootCount = now \div AutoshootPeriod

\* C2: bullet_collision queues a destroy for an entity exactly if it takes
\* part in a contact-start with a Bullet participant: per such notification
\* a despawn of the projectile followed by a recursive despawn of the
\* other, in either argument order; nothing for contact-ends and for
\* contacts of two non-projectiles.  Applied, the targets and the children
\* of the others are gone, and nothing else is that delayed_despawn did not
\* queue.
C2_Queued ==
    LET evs == UnreadCollisions
        hits == SelectSeq(evs, BulletContact)
        q == cmds'["bullet_collision"]
    IN /\ Len(q) = 2 * Len(hits)
       /\ \A k \in 1..Len(hits) :
            /\ q[2 * k - 1] = DespawnCmd(Projectile(hits[k]))
            /\ q[2 * k] = DespawnRecursiveCmd(Other(hits[k]))
       /\ Targets(q) =
            {e \in EntityIds : \E i \in DOMAIN evs :
                BulletContact(evs[i]) /\ e \in {evs[i].entity1, evs[i].entity2}}

C2_Destroyed ==
    LET q == cmds["bullet_collision"]
        others == {q[i].entity : i \in {j \in DOMAIN q :
                                          q[j].op = "despawn_recursive"}}
        family == Targets(q) \cup UNION {Children(o) : o \in others}
    IN /\ family \cap alive' = {}
       /\ (alive \ alive') \subseteq (family \cup Expired)

C2_DestroysExactlyBulletContacts ==
    [][(Step("bullet_collision") => C2_Queued)
       /\ (Applied => C2_Destroyed)]_vars

\* C2 witness: a contact-start naming the enemy first and a bullet second
\* has been applied: the bullet, the enemy and the enemy's scene are gone.
C2_Witness ==
    /\ pc = "post"
    /\ \E i \in DOMAIN collA :
         /\ collA[i].type = "Started"
         /\ collA[i].entity1 = EnemyEntity
         /\ collA[i].entity2 \in BulletIds
         /\ despawned[collA[i].entity2] = 1
    /\ {EnemyEntity, EnemyScene} \cap alive = {}
    /\ PlayerEntity \in alive

\* C3 (as stated): a projectile that delayed_despawn destroys on expiry is
\* in no contact on account of which bullet_collision destroys an entity in
\* the same frame.
C3_ExpiredTriggersNoCollisionDestroy ==
    Targets(cmds["bullet_collision"]) \cap Expired = {}

\* C3 (amended): when a projectile expires in a frame in which a
\* contact-start involving it is read, bullet_collision, in either order of
\* the two routines, still queues the destruction of both participants;
\* once applied both are gone, each removed exactly once (the projectile's
\* second destroy is a no-op), and nothing has panicked.
C3_ExpiredStillCollides ==
    [][Applied =>
         \A i \in DOMAIN FrameContacts :
            LET ev == FrameContacts[i] IN
            (ev.type = "Started" /\ {ev.entity1, ev.entity2} \cap Expired # {})
               => /\ {ev.entity1, ev.entity2} \subseteq
                        Targets(cmds["bullet_collision"])
                  /\ {ev.entity1, ev.entity2} \cap alive' = {}
                  /\ despawned'[ev.entity1] = 1
                  /\ despawned'[ev.entity2] = 1
                  /\ ~panicked']_vars

\* C3 witness: all systems have run; a projectile is queued by
\* delayed_despawn and, with the enemy, by bullet_collision.
C3_Witness ==
    /\ pc = "update" /\ ran = Systems
    /\ \E k \in 1..(Len(cmds["bullet_collision"]) \div 2) :
         /\ cmds["bullet_collision"][2 * k - 1].entity \in Expired
         /\ cmds["bullet_collision"][2 * k].entity = EnemyEntity

\* C4 (as stated): at the start of a frame no fire notification is pending.
C4_ConsumedInSameFrame ==
    pc = "first" => UnreadShoot = <<>>

\* C4 (amended): a fire notification is consumed by spawn_bullet in the
\* frame that produced it when autoshoot ran first, and otherwise in the
\* next frame: once spawn_bullet has run in a frame, and until the next
\* frame starts, no notification of an earlier frame is pending, and at
\* most the one notification of the current frame is.
C4_ConsumedByNextFrame ==
    /\ (pc # "update" \/ "spawn_bullet" \in ran)
          => /\ spawnReader >= Len(shootA)
             /\ Len(UnreadShoot) <= 1
    /\ spawnReader <= Len(shootA) + Len(shootB)

\* C4 witness: spawn_bullet has turned a notification of the previous frame
\* into a spawn command, before autoshoot of this frame has sent anything.
C4_Witness ==
    /\ pc = "update" /\ "spawn_bullet" \in ran
    /\ shootA # <<>> /\ shootB = <<>>
    /\ cmds["spawn_bullet"] # <<>>

\* C5: a fallible routine that fails in a frame leaves the state it owns
\* or writes as it was: autoshoot its countdown and the fire notifications,
\* player_rotation_controller the player's transform.
C5_FailedRoutineChangesNothing ==
    [][/\ "autoshoot" \in failed' \ failed
            => /\ autoTimer' = <<AutoshootTimer>>
               /\ shootB' = shootB /\ shootCount' = shootCount
       /\ "player_rotation_controller" \in failed' \ failed
            => player' = player]_vars

\* C6: in every reachable state there is exactly one ActiveCamera and
\* exactly one Player.
C6_CameraAndPlayerPersist ==
    Cardinality(ActiveCameras) = 1 /\ Cardinality(Players) = 1

\* C7: a projectile enters the world with a countdown of 0 of 5;
\* delayed_despawn advances it by the frame's delta (never back) and queues
\* the projectile's destruction exactly in the frame in which the sum
\* reaches 5; a projectile in no contact survives every earlier frame, and
\* the one destroyed on expiry is removed exactly once.
C7_Ticked ==
    \A b \in DOMAIN bullets :
       LET before == bullets[b].delayed_despawn.elapsed
           after == bullets'[b].delayed_despawn.elapsed
       IN /\ after = Min(before + delta, BulletLifetime)
          /\ after >= before
          /\ (b \in Targets(cmds'["delayed_despawn"]))
                <=> (before < BulletLifetime
                       /\ before + delta >= BulletLifetime)

C7_Applied ==
    /\ \A b \in DOMAIN bullets :
          /\ b \in Expired => (b \notin alive' /\ despawned'[b] = 1)
          /\ (b \notin Expired /\ b \notin Targets(cmds["bullet_collision"]))
                => /\ b \in DOMAIN bullets'
                   /\ bullets'[b].delayed_despawn.elapsed < BulletLifetime
    /\ \A b \in (DOMAIN bullets') \ (DOMAIN bullets) :
          /\ bullets'[b].delayed_despawn.elapsed = 0
          /\ bullets'[b].delayed_despawn.duration = BulletLifetime
          /\ ~bullets'[b].delayed_despawn.finished
    /\ \A e \in EntityIds : despawned'[e] <= 1

C7_LifetimeCountdown ==
    [][(Step("delayed_despawn") => C7_Ticked)
       /\ (Applied => C7_Applied)]_vars

\* C7 witness: a projectile in no contact has just been removed by its
\* countdown, 5 or more time units after the first notification could fire.
C7_Witness ==
    /\ pc = "post"
    /\ collA = <<>>
    /\ \E b \in BulletIds : despawned[b] = 1
    /\ now >= AutoshootPeriod + BulletLifetime

\* C8: spawn_bullet handles every pending fire notification once.  With the
\* shooter alive it queues one projectile per notification, at the
\* shooter's position plus its forward vector times the spawn offset, with
\* velocity forward times 100 and a fresh countdown of 5; with the shooter
\* gone it queues nothing and nothing fails.  Applied, each queued
\* projectile exists.  No notification is lost or replayed: while the
\* shooter lives, projectiles created plus notifications pending equal the
\* notifications sent.
C8_Spawned ==
    LET pending == UnreadShoot
        q == cmds'["spawn_bullet"]
    IN /\ UnreadShoot' = <<>>
       /\ failed' = failed /\ ~panicked'
       /\ \A i \in DOMAIN pending : pending[i].shooter = PlayerEntity
       /\ IF PlayerEntity \in alive
          THEN /\ Len(q) = Len(pending)
               /\ \A i \in DOMAIN q :
                    /\ q[i].op = "spawn"
                    /\ q[i].entity = nextEntity + i - 1
                    /\ q[i].entity \notin alive
                    /\ \A k \in 1..3 :
                         /\ q[i].bundle[1].transform[k] =
                               player.translation[k]
                                 + player.forward[k] * BulletSpawnDistance
                         /\ q[i].bundle[1].velocity[k] =
                               player.forward[k] * 100
                    /\ q[i].bundle[1].delayed_despawn.elapsed = 0
                    /\ q[i].bundle[1].delayed_despawn.duration = 5
                    /\ ~q[i].bundle[1].delayed_despawn.finished
          ELSE q = <<>>

C8_Accounted ==
    PlayerEntity \in alive
       => (nextEntity - FirstBullet) + Len(UnreadShoot) = shootCount

C8_OneProjectilePerNotification ==
    [][/\ Step("spawn_bullet") => C8_Spawned
       /\ Applied => Targets(cmds["spawn_bullet"]) \subseteq DOMAIN bullets'
       /\ C8_Accounted']_vars

\* C8 witness: the shooter at (0,0,0) facing (0,0,-1): the projectile is
\* queued at (0,0,-2) with velocity (0,0,-100).
C8_Witness ==
    /\ player = [translation |-> <<0, 0, 0>>, forward |-> <<0, 0, -1>>]
    /\ PlayerEntity \in alive
    /\ Len(cmds["spawn_bullet"]) = 1
    /\ cmds["spawn_bullet"][1].bundle[1].transform = <<0, 0, -2>>
    /\ cmds["spawn_bullet"][1].bundle[1].velocity = <<0, 0, -100>>

\* C9: contact-starts are handled one by one and idempotently.  All
\* participants of the frame's contact-starts with a live projectile are
\* gone once the commands are applied, each removed exactly once, however
\* many notifications name them; a notification whose participants are all
\* gone queues nothing; nothing panics.
C9_Idempotent ==
    [][/\ Step("bullet_collision")
            => /\ ~panicked'
               /\ \A i \in DOMAIN UnreadCollisions :
                    LET ev == UnreadCollisions[i] IN
                    {ev.entity1, ev.entity2} \cap alive = {}
                       => {ev.entity1, ev.entity2}
                             \cap Targets(cmds'["bullet_collision"]) = {}
       /\ Applied
            => /\ \A i \in DOMAIN FrameContacts :
                    LET ev == FrameContacts[i] IN
                    BulletContact(ev)
                       => /\ {ev.entity1, ev.entity2} \cap alive' = {}
                          /\ despawned'[ev.entity1] = 1
                          /\ despawned'[ev.entity2] = 1
               /\ \A e \in EntityIds : despawned'[e] <= 1
               /\ ~panicked']_vars

\* C9 witness: one projectile touched the player and the enemy in the same
\* frame; all three are gone.
C9_Witness ==
    /\ pc = "post" /\ ~panicked
    /\ Len(collA) = 2
    /\ collA[1].type = "Started" /\ collA[2].type = "Started"
    /\ \E b \in BulletIds :
         /\ b \in {collA[1].entity1, collA[1].entity2}
         /\ b \in {collA[2].entity1, collA[2].entity2}
         /\ despawned[b] = 1
    /\ {collA[1].entity1, collA[1].entity2, collA[2].entity1,
        collA[2].entity2} \cap Ships = Ships
    /\ Ships \cap alive = {}

\* C10: the pointer is hidden and locked exactly when the dragging flag is
\* set; camera_controller sets the flag on a press, clears it on a
\* release, keeps it otherwise; motion reported in a frame that ends with
\* the flag clear leaves yaw and pitch as they were.
C10_LockedIffActive ==
    /\ Len(window) = 1
    /\ active <=> (~window[1].visible /\ window[1].grab_mode = "Locked")
    /\ ~active <=> (window[1].visible /\ window[1].grab_mode = "None")

C10_PointerDrag ==
    [][/\ C10_LockedIffActive /\ C10_LockedIffActive'
       /\ (camPc = "update" /\ camPc' = "input")
            => /\ (mouse.just_pressed /\ ~mouse.just_released) => active'
               /\ mouse.just_released => ~active'
               /\ (~mouse.just_pressed /\ ~mouse.just_released)
                     => active' = active
               /\ ~active' => /\ rotation_y' = rotation_y
                              /\ rotation_x' = rotation_x]_vars

\* C10 witness: camera_controller has just handled a release in a frame
\* that also reported motion; the angles moved while dragging stay put.
C10_Witness ==
    /\ camPc = "input"
    /\ mouse.just_released /\ ~mouse.just_pressed
    /\ motion # <<>>
    /\ ~active /\ window[1].visible
    /\ rotation_y # 0

====
